---------------------------- MODULE Spec2Model ----------------------------
(***************************************************************************)
(* Model of sync-ostree-to-containers (src/src/main.rs): the `fetch`        *)
(* subcommand lists the refs of an ostree remote, filters them with a      *)
(* segment-wise glob and pulls every match in turn.                        *)
(*                                                                         *)
(* Strings are sequences of bytes (a Rust String is its UTF-8 bytes), so   *)
(* that splitting, line iteration and formatting are computed, not         *)
(* assumed.                                                                *)
(***************************************************************************)
EXTENDS Integers, Sequences, FiniteSets, TLC

VARIABLES
    repopath,    \* repo.repo, the --repo argument
    remotename,  \* repo.remote, the --remote argument
    refglob,     \* the refs argument
    ostree_out,  \* what `ostree remote refs` answers: [spawn, success, stdout]
    pc,          \* position inside Opt::fetch
    all_refs,    \* fetch's all_refs
    targets,     \* fetch's targets
    next_target, \* position of the `for ostreeref in targets` iterator
    running,     \* child processes spawned and not yet waited for
    events,      \* side effects so far: commands spawned and lines printed
    pull_status, \* how every pull attempted so far ended
    result       \* what fetch returned

vars == <<repopath, remotename, refglob, ostree_out, pc, all_refs, targets,
          next_target, running, events, pull_status, result>>

----------------------------------------------------------------------------
(* Bytes the program gives a meaning to. *)

LF == 10
CR == 13
STAR == 42
SLASH == 47
COLON == 58

(* Bounds of the model. *)

\* longest stdout of `ostree remote refs` enumerated byte by byte (SpecList)
MaxStdoutLen == 6
\* weight (bytes plus one per ref) of the longest ref list enumerated (SpecMatch)
MaxRefListBytes == 6
\* longest glob enumerated byte by byte (SpecMatch)
MaxGlobLen == 3
\* most lines of a listing in a whole fetch run (Spec)
MaxLines == 3

----------------------------------------------------------------------------
(* Library functions the program calls, as the standard library defines    *)
(* them.                                                                   *)

\* str::find(char): the index of the first occurrence, 0 for None
find(s, c) ==
    IF \E i \in DOMAIN s : s[i] = c
    THEN CHOOSE i \in DOMAIN s : s[i] = c /\ \A j \in 1..(i - 1) : s[j] # c
    ELSE 0

\* str::split(char): never empty; n separators give n + 1 pieces
RECURSIVE split(_, _)
split(s, sep) ==
    LET i == find(s, sep)
    IN  IF i = 0
        THEN <<s>>
        ELSE <<SubSeq(s, 1, i - 1)>> \o split(SubSeq(s, i + 1, Len(s)), sep)

\* str::split_inclusive(char): pieces keep their terminator, no empty last piece
RECURSIVE split_inclusive(_, _)
split_inclusive(s, sep) ==
    IF s = <<>>
    THEN <<>>
    ELSE LET i == find(s, sep)
         IN  IF i = 0
             THEN <<s>>
             ELSE <<SubSeq(s, 1, i)>>
                      \o split_inclusive(SubSeq(s, i + 1, Len(s)), sep)

\* str::strip_suffix(char) with its None folded into the caller's early return
ends_with(s, c) == Len(s) > 0 /\ s[Len(s)] = c

\* the closure of str::lines: strip one "\n", then one "\r" before it
LinesMap(line) ==
    IF ~ends_with(line, LF)
    THEN line
    ELSE LET l1 == SubSeq(line, 1, Len(line) - 1)
         IN  IF ~ends_with(l1, CR) THEN l1 ELSE SubSeq(l1, 1, Len(l1) - 1)

\* str::lines, as the standard library documents it: a line ends with "\n" or
\* "\r\n"; a "\r" that no "\n" follows stays in its line (toolchains before
\* the 2023 fix also stripped a "\r" ending an unterminated last line)
lines(s) ==
    LET pieces == split_inclusive(s, LF)
    IN  [k \in 1..Len(pieces) |-> LinesMap(pieces[k])]

\* str::split_once(char): [some, before, after]
split_once(s, c) ==
    LET i == find(s, c)
    IN  IF i = 0
        THEN [some |-> FALSE, before |-> <<>>, after |-> <<>>]
        ELSE [some |-> TRUE,
              before |-> SubSeq(s, 1, i - 1),
              after |-> SubSeq(s, i + 1, Len(s))]

\* a UTF-8 continuation byte within lo..hi
Cont(s, i, lo, hi) == i <= Len(s) /\ s[i] >= lo /\ s[i] <= hi

\* String::from_utf8 succeeds: the bytes are well-formed UTF-8 from index i on
RECURSIVE utf8_valid_from(_, _)
utf8_valid_from(s, i) ==
    IF i > Len(s) THEN TRUE
    ELSE LET b == s[i] IN
      CASE b <= 127 -> utf8_valid_from(s, i + 1)
        [] b >= 194 /\ b <= 223 ->
             Cont(s, i + 1, 128, 191) /\ utf8_valid_from(s, i + 2)
        [] b = 224 ->
             Cont(s, i + 1, 160, 191) /\ Cont(s, i + 2, 128, 191)
                 /\ utf8_valid_from(s, i + 3)
        [] (b >= 225 /\ b <= 236) \/ b = 238 \/ b = 239 ->
             Cont(s, i + 1, 128, 191) /\ Cont(s, i + 2, 128, 191)
                 /\ utf8_valid_from(s, i + 3)
        [] b = 237 ->
             Cont(s, i + 1, 128, 159) /\ Cont(s, i + 2, 128, 191)
                 /\ utf8_valid_from(s, i + 3)
        [] b = 240 ->
             Cont(s, i + 1, 144, 191) /\ Cont(s, i + 2, 128, 191)
                 /\ Cont(s, i + 3, 128, 191) /\ utf8_valid_from(s, i + 4)
        [] b >= 241 /\ b <= 243 ->
             Cont(s, i + 1, 128, 191) /\ Cont(s, i + 2, 128, 191)
                 /\ Cont(s, i + 3, 128, 191) /\ utf8_valid_from(s, i + 4)
        [] b = 244 ->
             Cont(s, i + 1, 128, 143) /\ Cont(s, i + 2, 128, 191)
                 /\ Cont(s, i + 3, 128, 191) /\ utf8_valid_from(s, i + 4)
        [] OTHER -> FALSE

from_utf8_ok(bytes) == utf8_valid_from(bytes, 1)

----------------------------------------------------------------------------
(* remote_list *)

Ok(v) == [ok |-> TRUE, val |-> v, err |-> "none"]
Err(e) == [ok |-> FALSE, val |-> <<>>, err |-> e]

\* parse_line with a bug: rsplit_once, the text after the last ':'
parse_line_rsplit(v) ==
    IF \E i \in DOMAIN v : v[i] = COLON
    THEN LET i == CHOOSE i \in DOMAIN v :
                      v[i] = COLON /\ \A j \in (i + 1)..Len(v) : v[j] # COLON
         IN  [ok |-> TRUE, val |-> SubSeq(v, i + 1, Len(v)), err |-> "none"]
    ELSE [ok |-> FALSE, val |-> <<>>, err |-> "invalid_remote_line"]

\* the closure mapped over the lines: the text after the first ':', or an error
parse_line(v) ==
    LET so == split_once(v, COLON)
    IN  IF so.some THEN Ok(so.after) ELSE Err("invalid_remote_line")

\* collect_lines with a bug: filter_map, a line without a colon is skipped
RECURSIVE collect_lines_skip(_, _, _)
collect_lines_skip(ls, k, acc) ==
    IF k > Len(ls)
    THEN Ok(acc)
    ELSE LET r == parse_line(ls[k])
         IN  collect_lines_skip(ls, k + 1, IF r.ok THEN Append(acc, r.val) ELSE acc)

\* Iterator<Item = Result<String>>::collect::<Result<Vec<String>>>():
\* the first Err ends the collection and is the result
RECURSIVE collect_lines(_, _, _)
collect_lines(ls, k, acc) ==
    IF k > Len(ls)
    THEN Ok(acc)
    ELSE LET r == parse_line(ls[k])
         IN  IF r.ok THEN collect_lines(ls, k + 1, Append(acc, r.val)) ELSE r

\* remote_list, given what the child process answered
remote_list(o) ==
    IF ~o.spawn THEN Err("io_error")
    ELSE IF ~o.success THEN Err("remote_list_status")
    ELSE IF ~from_utf8_ok(o.stdout) THEN Err("from_utf8")
    ELSE collect_lines(lines(o.stdout), 1, <<>>)

----------------------------------------------------------------------------
(* glob_match_refs *)

\* zip_loop with a bug: any pattern segment that contains '*' is a wildcard
RECURSIVE zip_loop_contains(_, _, _)
zip_loop_contains(v_parts, parts, k) ==
    IF k > Len(v_parts) \/ k > Len(parts)
    THEN TRUE
    ELSE IF (\A i \in DOMAIN parts[k] : parts[k][i] # STAR)
                /\ v_parts[k] # parts[k]
         THEN FALSE
         ELSE zip_loop_contains(v_parts, parts, k + 1)

\* for (&v, &g) in v_parts.iter().zip(parts.iter()): stops at the shorter one
RECURSIVE zip_loop(_, _, _)
zip_loop(v_parts, parts, k) ==
    IF k > Len(v_parts) \/ k > Len(parts)
    THEN TRUE
    ELSE IF parts[k] # <<STAR>> /\ v_parts[k] # parts[k]
         THEN FALSE
         ELSE zip_loop(v_parts, parts, k + 1)

\* glob_filter with a bug: the segment counts are not compared
glob_filter_nolen(v, parts) == zip_loop(split(v, SLASH), parts, 1)

\* the filter closure
glob_filter(v, parts) ==
    LET v_parts == split(v, SLASH)
    IN  IF Len(parts) # Len(v_parts)
        THEN FALSE
        ELSE zip_loop(v_parts, parts, 1)

\* glob_match_refs with a bug: a name is kept once only
RECURSIVE dedup(_)
dedup(s) ==
    IF s = <<>>
    THEN <<>>
    ELSE LET d == dedup(SubSeq(s, 1, Len(s) - 1))
             x == s[Len(s)]
         IN  IF \E k \in DOMAIN d : d[k] = x THEN d ELSE Append(d, x)

glob_match_refs_dedup(refs, glob) ==
    LET parts == split(glob, SLASH)
        keep(v) == glob_filter(v, parts)
    IN  dedup(SelectSeq(refs, keep))

glob_match_refs(refs, glob) ==
    LET parts == split(glob, SLASH)
        keep(v) == glob_filter(v, parts)
    IN  SelectSeq(refs, keep)

----------------------------------------------------------------------------
(* Side effects of fetch *)

\* Command::new("ostree").args([--repo=<repo>, <verb>.., <arg>])
SpawnEvent(verb, repo, arg) ==
    [kind |-> verb, repo |-> repo, arg |-> arg, count |-> 0, list |-> <<>>]

\* StatusReport with a bug: the count printed is targets.len()
StatusReportFiltered(refs, matched) ==
    [kind |-> "println", repo |-> <<>>, arg |-> <<>>,
     count |-> Len(matched), list |-> matched]

\* println!("Filtered {all_refs_count} refs to:"); println!("{targets:?}")
StatusReport(refs, matched) ==
    [kind |-> "println", repo |-> <<>>, arg |-> <<>>,
     count |-> Len(refs), list |-> matched]

\* PullRefspec with a bug: the remote is left out of the refspec
PullRefspecBare(remote, ostreeref) == ostreeref

\* format!("{remotename}:{ostreeref}")
PullRefspec(remote, ostreeref) == remote \o <<COLON>> \o ostreeref

----------------------------------------------------------------------------
(* Opt::fetch, one action per blocking call or visible effect *)

\* ListRefs with a bug: unwrap_or_default() in place of `?`
ListRefsSwallow ==
    /\ pc = "remote_list"
    /\ events' = Append(events, SpawnEvent("remote refs", repopath, remotename))
    /\ all_refs' = remote_list(ostree_out).val
    /\ pc' = "glob_match"
    /\ UNCHANGED <<repopath, remotename, refglob, ostree_out, targets,
                   next_target, running, pull_status, result>>

\* let all_refs = remote_list(repo.repo.as_path(), remotename)?;
ListRefs ==
    /\ pc = "remote_list"
    /\ events' = Append(events, SpawnEvent("remote refs", repopath, remotename))
    /\ LET r == remote_list(ostree_out)
       IN  IF r.ok
           THEN /\ all_refs' = r.val
                /\ pc' = "glob_match"
                /\ result' = result
           ELSE /\ all_refs' = all_refs
                /\ pc' = "done"
                /\ result' = r.err
    /\ UNCHANGED <<repopath, remotename, refglob, ostree_out, targets,
                   next_target, running, pull_status>>

\* FilterAndReport with a bug: nothing is printed when nothing matched
FilterAndReportQuiet ==
    /\ pc = "glob_match"
    /\ targets' = glob_match_refs(all_refs, refglob)
    /\ events' = IF targets' = <<>>
                 THEN events
                 ELSE Append(events, StatusReport(all_refs, targets'))
    /\ next_target' = 1
    /\ pc' = "for"
    /\ UNCHANGED <<repopath, remotename, refglob, ostree_out, all_refs,
                   running, pull_status, result>>

\* let targets = glob_match_refs(&all_refs, refglob); and the two println!
FilterAndReport ==
    /\ pc = "glob_match"
    /\ targets' = glob_match_refs(all_refs, refglob)
    /\ events' = Append(events, StatusReport(all_refs, targets'))
    /\ next_target' = 1
    /\ pc' = "for"
    /\ UNCHANGED <<repopath, remotename, refglob, ostree_out, all_refs,
                   running, pull_status, result>>

\* for ostreeref in targets { Command::new("ostree")...status()?  (the spawn)
PullSpawn ==
    /\ pc = "for"
    /\ next_target <= Len(targets)
    /\ events' = Append(events,
           SpawnEvent("pull", repopath,
                      PullRefspec(remotename, targets[next_target])))
    /\ \E spawned \in BOOLEAN :
         IF spawned
         THEN /\ running' = running + 1
              /\ pc' = "wait"
              /\ UNCHANGED <<pull_status, result>>
         ELSE /\ pull_status' = Append(pull_status, "io_error")
              /\ pc' = "done"
              /\ result' = "io_error"
              /\ UNCHANGED running
    /\ UNCHANGED <<repopath, remotename, refglob, ostree_out, all_refs,
                   targets, next_target>>

\* PullWait with a bug: the exit status is recorded and not looked at
PullWaitIgnoreStatus ==
    /\ pc = "wait"
    /\ running' = running - 1
    /\ \E success \in BOOLEAN :
         pull_status' = Append(pull_status, IF success THEN "success" ELSE "failed")
    /\ next_target' = next_target + 1
    /\ pc' = "for"
    /\ UNCHANGED <<repopath, remotename, refglob, ostree_out, all_refs,
                   targets, events, result>>

\* ...status()? (the wait); if !status.success() { bail!("Failed to fetch") }
PullWait ==
    /\ pc = "wait"
    /\ running' = running - 1
    /\ \E success \in BOOLEAN :
         IF success
         THEN /\ pull_status' = Append(pull_status, "success")
              /\ next_target' = next_target + 1
              /\ pc' = "for"
              /\ UNCHANGED result
         ELSE /\ pull_status' = Append(pull_status, "failed")
              /\ pc' = "done"
              /\ result' = "failed_to_fetch"
              /\ UNCHANGED next_target
    /\ UNCHANGED <<repopath, remotename, refglob, ostree_out, all_refs,
                   targets, events>>

\* the loop is exhausted: Ok(())
ReturnOk ==
    /\ pc = "for"
    /\ next_target > Len(targets)
    /\ pc' = "done"
    /\ result' = "ok"
    /\ UNCHANGED <<repopath, remotename, refglob, ostree_out, all_refs,
                   targets, next_target, running, events, pull_status>>

----------------------------------------------------------------------------
(* Inputs *)

\* all byte strings over the alphabet A of length at most n
RECURSIVE Strs(_, _)
Strs(A, n) ==
    IF n = 0
    THEN {<<>>}
    ELSE LET P == Strs(A, n - 1)
         IN  P \cup {Append(s, b) : s \in {t \in P : Len(t) = n - 1}, b \in A}

\* "a" and "b": bytes without a meaning to the program
A == <<97>>
B == <<98>>

\* the stdout that lists refs under the line prefix p, every line ended by "\n"
RECURSIVE ListingOf(_, _)
ListingOf(p, refs) ==
    IF refs = <<>>
    THEN <<>>
    ELSE p \o <<COLON>> \o Head(refs) \o <<LF>> \o ListingOf(p, Tail(refs))

(* A whole fetch run: listings made of up to MaxLines sample lines. *)

SampleRefs == {A, A \o <<SLASH>> \o A, A \o <<SLASH>> \o B, B \o <<SLASH>> \o A}

SampleGlobs ==
    {A, <<STAR>>, A \o <<SLASH>> \o A, A \o <<SLASH, STAR>>,
     <<STAR, SLASH>> \o A, <<STAR, SLASH, STAR>>}

\* well-formed lines (one under another prefix than the remote, one ended by
\* "\r\n"), a line without a colon, a blank line, a line that is not UTF-8
SampleLines ==
    {A \o <<COLON>> \o r \o <<LF>> : r \in SampleRefs}
        \cup {B \o <<COLON>> \o A \o <<LF>>,
              A \o <<COLON>> \o A \o <<CR, LF>>,
              A \o <<LF>>, <<LF>>, <<255, LF>>}

RECURSIVE Listings(_)
Listings(n) ==
    IF n = 0
    THEN {<<>>}
    ELSE LET P == Listings(n - 1)
         IN  P \cup {l \o s : l \in SampleLines, s \in P}

SampleAnswers ==
    {[spawn |-> TRUE, success |-> TRUE, stdout |-> s] : s \in Listings(MaxLines)}
        \cup {[spawn |-> TRUE, success |-> FALSE, stdout |-> s] : s \in Listings(1)}
        \cup {[spawn |-> FALSE, success |-> FALSE, stdout |-> <<>>]}

Init ==
    /\ repopath = <<114>>
    /\ remotename = A
    /\ refglob \in SampleGlobs
    /\ ostree_out \in SampleAnswers
    /\ pc = "remote_list"
    /\ all_refs = <<>>
    /\ targets = <<>>
    /\ next_target = 1
    /\ running = 0
    /\ events = <<>>
    /\ pull_status = <<>>
    /\ result = "none"

Next == ListRefs \/ FilterAndReport \/ PullSpawn \/ PullWait \/ ReturnOk

Spec == Init /\ [][Next]_vars

(* remote_list alone: every stdout of up to MaxStdoutLen bytes. *)

\* "\n", "\r", ":", "a" and the two bytes of U+00E9, each ill-formed alone
ListBytes == {LF, CR, COLON, 97, 195, 169}

InitList ==
    /\ repopath = <<114>>
    /\ remotename = A
    /\ refglob = <<STAR>>
    /\ ostree_out \in
         {[spawn |-> TRUE, success |-> TRUE, stdout |-> s] :
              s \in Strs(ListBytes, MaxStdoutLen)}
           \cup {[spawn |-> TRUE, success |-> FALSE, stdout |-> s] :
              s \in Strs(ListBytes, 1)}
           \cup {[spawn |-> FALSE, success |-> FALSE, stdout |-> <<>>]}
    /\ pc = "remote_list"
    /\ all_refs = <<>>
    /\ targets = <<>>
    /\ next_target = 1
    /\ running = 0
    /\ events = <<>>
    /\ pull_status = <<>>
    /\ result = "none"

NextList == ListRefs

SpecList == InitList /\ [][NextList]_vars

(* glob_match_refs alone: every ref list of weight up to MaxRefListBytes   *)
(* and every glob of up to MaxGlobLen bytes, fetch being past a listing    *)
(* that gave these refs.                                                   *)

\* "/", "*" and "a"
MatchBytes == {SLASH, STAR, 97}

\* all lists of refs over MatchBytes whose bytes plus length are at most n
RECURSIVE RefLists(_)
RefLists(n) ==
    IF n <= 0
    THEN {<<>>}
    ELSE {<<>>} \cup
         UNION {{<<s>> \o l : l \in RefLists(n - Len(s) - 1)} :
                    s \in Strs(MatchBytes, n - 1)}

InitMatch ==
    /\ repopath = <<114>>
    /\ remotename = A
    /\ refglob \in Strs(MatchBytes, MaxGlobLen)
    /\ all_refs \in RefLists(MaxRefListBytes)
    /\ ostree_out = [spawn |-> TRUE, success |-> TRUE,
                     stdout |-> ListingOf(remotename, all_refs)]
    /\ pc = "glob_match"
    /\ targets = <<>>
    /\ next_target = 1
    /\ running = 0
    /\ events = <<SpawnEvent("remote refs", repopath, remotename)>>
    /\ pull_status = <<>>
    /\ result = "none"

NextMatch == FilterAndReport

SpecMatch == InitMatch /\ [][NextMatch]_vars

----------------------------------------------------------------------------
(* What the claims speak of, stated from positions in the text and not by  *)
(* the operators that model the code.                                      *)

Range(f) == {f[k] : k \in DOMAIN f}

Positions(s, c) == {i \in DOMAIN s : s[i] = c}

\* the k-th smallest element of a set of positions
Kth(P, k) == CHOOSE i \in P : Cardinality({j \in P : j <= i}) = k

\* segments of a ref or a glob: the stretches between consecutive '/'
SegmentCount(s) == Cardinality(Positions(s, SLASH)) + 1

SegmentAt(s, k) ==
    LET P == Positions(s, SLASH)
        from == IF k = 1 THEN 1 ELSE Kth(P, k - 1) + 1
        to == IF k = Cardinality(P) + 1 THEN Len(s) ELSE Kth(P, k) - 1
    IN  SubSeq(s, from, to)

\* the match of section 4.2 of the design
SegmentwiseMatch(r, p) ==
    /\ SegmentCount(r) = SegmentCount(p)
    /\ \A k \in 1..SegmentCount(p) :
          SegmentAt(p, k) = <<STAR>> \/ SegmentAt(p, k) = SegmentAt(r, k)

\* a segment of p is exactly "*"
HasWildcardSegment(p) ==
    \E i \in DOMAIN p :
        /\ p[i] = STAR
        /\ i = 1 \/ p[i - 1] = SLASH
        /\ i = Len(p) \/ p[i + 1] = SLASH

\* lines of a text: ended by "\n" or "\r\n", the last one possibly by nothing
LineCount(s) ==
    Cardinality(Positions(s, LF))
        + (IF s # <<>> /\ s[Len(s)] # LF THEN 1 ELSE 0)

LineAt(s, k) ==
    LET P == Positions(s, LF)
        from == IF k = 1 THEN 1 ELSE Kth(P, k - 1) + 1
        ended == k <= Cardinality(P)
        to == IF ended THEN Kth(P, k) - 1 ELSE Len(s)
    IN  IF ended /\ to >= from /\ s[to] = CR
        THEN SubSeq(s, from, to - 1)
        ELSE SubSeq(s, from, to)

AfterFirstColon(l) ==
    LET P == Positions(l, COLON)
    IN  SubSeq(l, Kth(P, 1) + 1, Len(l))

EveryLineHasColon(s) ==
    \A k \in 1..LineCount(s) : Positions(LineAt(s, k), COLON) # {}

\* the ref-source reported a failure, bytes that are no text, or a line with no colon
ListingFails(o) ==
    \/ ~o.spawn
    \/ ~o.success
    \/ ~from_utf8_ok(o.stdout)
    \/ ~EveryLineHasColon(o.stdout)

\* the names a well-formed listing advertises, and those the glob selects
ListedRefs(s) == [k \in 1..LineCount(s) |-> AfterFirstColon(LineAt(s, k))]

MatchedRefs(s, p) ==
    LET keep(r) == SegmentwiseMatch(r, p)
    IN  SelectSeq(ListedRefs(s), keep)

\* the pulls attempted so far, and the status reports printed so far
IsPull(e) == e.kind = "pull"
IsReport(e) == e.kind = "println"
Pulls == SelectSeq(events, IsPull)
Reports == SelectSeq(events, IsReport)

Count(s, x) == Cardinality({k \in DOMAIN s : s[k] = x})

RECURSIVE IsSubsequence(_, _)
IsSubsequence(a, b) ==
    IF a = <<>> THEN TRUE
    ELSE IF b = <<>> THEN FALSE
    ELSE IF Head(a) = Head(b) THEN IsSubsequence(Tail(a), Tail(b))
    ELSE IsSubsequence(a, Tail(b))

----------------------------------------------------------------------------
(* Claims about glob_match_refs, under SpecMatch *)

\* C1: glob_match_refs keeps a ref if and only if it has as many '/'-separated
\* segments as the pattern and every pattern segment is exactly "*" or equal
\* to the ref's segment at that position (empty segments and segments that
\* merely contain '*' are literals).
C1_SegmentwiseIff ==
    pc # "glob_match" =>
        \A r \in Range(all_refs) :
            (r \in Range(targets)) <=> SegmentwiseMatch(r, refglob)

\* a ref with an empty segment kept through a wildcard segment, another dropped
C1_Witness ==
    /\ pc = "for"
    /\ refglob = <<STAR, SLASH, 97>>
    /\ <<SLASH, 97>> \in Range(targets)
    /\ Len(targets) < Len(all_refs)

\* C5: the result of glob_match_refs is a subsequence of its input, and a
\* matched name occurs in the result as often as in the input.
C5_OrderedSubsequence ==
    pc # "glob_match" =>
        /\ IsSubsequence(targets, all_refs)
        /\ \A x \in Range(targets) : Count(targets, x) = Count(all_refs, x)

\* a name matched twice around a ref that is dropped
C5_Witness ==
    /\ pc = "for"
    /\ Len(all_refs) = 3
    /\ Len(targets) = 2
    /\ targets[1] = targets[2]
    /\ all_refs[2] # targets[1]

\* C7: for a pattern none of whose segments is "*", glob_match_refs keeps
\* exactly the refs equal to the pattern as a whole string.
C7_LiteralExactness ==
    pc # "glob_match" /\ ~HasWildcardSegment(refglob) =>
        \A r \in Range(all_refs) : (r \in Range(targets)) <=> r = refglob

\* the pattern "a*" keeps the ref "a*" and drops the ref "a"
C7_Witness ==
    /\ pc = "for"
    /\ refglob = <<97, STAR>>
    /\ all_refs = <<<<97>>, <<97, STAR>>>>
    /\ targets = <<<<97, STAR>>>>

----------------------------------------------------------------------------
(* Claim about remote_list, under SpecList *)

\* C6: when the ref-source succeeds with text whose every line has a colon,
\* remote_list returns one name per line, in order, each the text after the
\* first colon of its line; an empty response gives the empty sequence, not
\* an error.
C6_OneNamePerLine ==
    pc # "remote_list" /\ ~ListingFails(ostree_out) =>
        /\ pc = "glob_match"
        /\ result = "none"
        /\ Len(all_refs) = LineCount(ostree_out.stdout)
        /\ \A k \in 1..Len(all_refs) :
              all_refs[k] = AfterFirstColon(LineAt(ostree_out.stdout, k))

\* an empty name, then a name that holds a colon itself
C6_Witness ==
    /\ pc = "glob_match"
    /\ ostree_out.stdout = <<97, COLON, LF, COLON, 97, COLON>>
    /\ all_refs = <<<<>>, <<97, COLON>>>>

----------------------------------------------------------------------------
(* Claims about a whole fetch run, under Spec *)

PullOf(ostreeref) ==
    [kind |-> "pull", repo |-> repopath,
     arg |-> remotename \o <<COLON>> \o ostreeref,
     count |-> 0, list |-> <<>>]

\* C2: once the pull of the k-th matched ref has reported a non-success
\* status, fetch has returned an error, and the commands run are the listing
\* and the pulls of the matched refs 1..k, once each: nothing after k,
\* nothing before k undone or repeated.
C2_FailFast ==
    \A k \in DOMAIN pull_status :
        pull_status[k] = "failed" =>
            /\ pc = "done"
            /\ result = "failed_to_fetch"
            /\ k = Len(pull_status)
            /\ \A j \in 1..(k - 1) : pull_status[j] = "success"
            /\ Pulls = [j \in 1..k |-> PullOf(targets[j])]
            /\ Len(events) = k + 2
            /\ running = 0

\* the second of three matched refs fails
C2_Witness ==
    /\ pc = "done"
    /\ Len(targets) = 3
    /\ pull_status = <<"success", "failed">>
    /\ Len(Pulls) = 2

\* C3: when the listing fails (failure status, bytes that are no text, or a
\* line without a colon, even among well-formed lines), fetch returns an
\* error and no pull is invoked.
C3_ListingFailureAborts ==
    pc # "remote_list" /\ ListingFails(ostree_out) =>
        /\ pc = "done"
        /\ result \notin {"none", "ok"}
        /\ Pulls = <<>>
        /\ all_refs = <<>>
        /\ targets = <<>>

\* a line without a colon after a well-formed line that the glob matches
C3_Witness ==
    /\ pc = "done"
    /\ result = "invalid_remote_line"
    /\ refglob = <<STAR>>
    /\ ostree_out.stdout = <<97, COLON, 97, LF, 97, LF>>

\* C4 as stated: the count printed is the number of matched refs.
C4_CountIsMatchCount ==
    \A k \in DOMAIN events :
        IsReport(events[k]) => events[k].count = Len(events[k].list)

\* C4, amended: the count printed is the number of refs listed, matched or
\* not, and the list printed is the matched refs; when no listed ref
\* matches, the list is empty and the count is still the number listed.
C4_CountIsListedCount ==
    \A k \in DOMAIN events :
        IsReport(events[k]) =>
            /\ events[k].count = LineCount(ostree_out.stdout)
            /\ events[k].list = MatchedRefs(ostree_out.stdout, refglob)

\* three refs listed, none matched
C4_Witness ==
    /\ Len(Reports) = 1
    /\ Reports[1].count = 3
    /\ Reports[1].list = <<>>

\* C8: fetch returns success if and only if the listing succeeded and every
\* matched ref was pulled with success; with nothing matched it succeeds
\* having invoked no pull.
C8_SuccessIff ==
    pc = "done" =>
        /\ result # "none"
        /\ result = "ok" <=>
              /\ ~ListingFails(ostree_out)
              /\ Len(pull_status) = Len(MatchedRefs(ostree_out.stdout, refglob))
              /\ \A k \in DOMAIN pull_status : pull_status[k] = "success"
        /\ result = "ok" /\ targets = <<>> => Pulls = <<>>

\* a run that returned success after two pulls
C8_Witness ==
    /\ pc = "done"
    /\ result = "ok"
    /\ pull_status = <<"success", "success">>

\* C9: the pulls invoked so far are those of a prefix of the matched refs,
\* in order, one per occurrence, each with the caller's repository and
\* remote; at most one is in progress; on success all of them were invoked.
C9_PullsArePrefix ==
    LET matched == IF ListingFails(ostree_out)
                   THEN <<>>
                   ELSE MatchedRefs(ostree_out.stdout, refglob)
    IN  /\ Len(Pulls) <= Len(matched)
        /\ \A k \in 1..Len(Pulls) : Pulls[k] = PullOf(matched[k])
        /\ running \in {0, 1}
        /\ Len(Pulls) - Len(pull_status) = running
        /\ pc = "done" /\ result = "ok" => Len(Pulls) = Len(matched)

\* a name listed twice under a prefix that is not the remote, pulled twice
C9_Witness ==
    /\ pc = "done"
    /\ result = "ok"
    /\ remotename = A
    /\ ostree_out.stdout = ListingOf(B, <<A, A>>)
    /\ Pulls = <<PullOf(A), PullOf(A)>>

\* C10: a run whose listing succeeds prints the status report with the
\* matched refs exactly once, after the listing command and before any
\* pull; a run whose listing fails prints none.
C10_ReportOnceBeforePulls ==
    /\ pc \in {"remote_list", "glob_match"} => Reports = <<>> /\ Pulls = <<>>
    /\ ListingFails(ostree_out) => Reports = <<>>
    /\ pc \notin {"remote_list", "glob_match"} /\ ~ListingFails(ostree_out) =>
          /\ Len(events) >= 2
          /\ events[1].kind = "remote refs"
          /\ IsReport(events[2])
          /\ events[2].list = MatchedRefs(ostree_out.stdout, refglob)
          /\ \A k \in 3..Len(events) : IsPull(events[k])

\* the report stands before a first pull that failed
C10_Witness ==
    /\ pc = "done"
    /\ result = "failed_to_fetch"
    /\ pull_status = <<"failed">>
    /\ IsReport(events[2])
    /\ IsPull(events[3])

=============================================================================
